---- MODULE Spec2Model ----
(***************************************************************************)
(* Dialogue-state core of the beer assistant: the slot-state registry      *)
(* (StateTracker, DM._update_states), the decision engine (DM.__call__,    *)
(* DM._check_response_validity, DM._handle_confirmation) and the part of   *)
(* the catalog query engine the decision engine dispatches to.             *)
(***************************************************************************)
EXTENDS Integers, Sequences, FiniteSets, TLC

\* ------------------------------------------------------------------ bounds
MaxTrackers == 2    \* trackers the registry may hold at once
MaxBatch == 2       \* observations in one batch
MaxLimit == 3       \* largest limit a History is constructed with
MaxPushes == 5      \* entries pushed on a History between two clearings
MaxComponentPushes == 7   \* entries a component pushes between two clearings

\* ------------------------------------------------------------- basic values
None == "<None>"          \* Python's None
Missing == "<missing>"    \* a key the parsed reply does not have

Range(s) == {s[i] : i \in 1..Len(s)}

\* str.lower() on the strings the model uses
Lower(s) ==
    CASE s = "Null" -> "null"
      [] s = "None" -> "none"
      [] s = "Duvel" -> "duvel"
      [] s = "Punk IPA" -> "punk ipa"
      [] s = "American IPA" -> "american ipa"
      [] s = "Belgian Strong Ale" -> "belgian strong ale"
      [] OTHER -> s

\* ------------------------------------------------------------ StateTracker
\* the static intent -> slot table of _initialize_slots; unknown intents get []
intent_slots(intent) ==
    CASE intent = "get_beer_recommendation" -> <<"style", "abv", "ibu", "rating">>
      [] intent = "get_beer_info" -> <<"name", "brewery">>
      [] intent = "list_beers_by_brewery" -> <<"brewery">>
      [] intent = "get_top_rated" -> <<"style">>
      [] intent = "rate_beer" -> <<"name", "rating", "comment">>
      [] intent = "out_of_context" -> <<>>
      [] OTHER -> <<>>

\* _initialize_slots giving every slot of a new tracker a value
InitializeSlots_Prefilled(intent) == [field \in Range(intent_slots(intent)) |-> "Duvel"]

\* lines 21-32
InitializeSlots(intent) == [field \in Range(intent_slots(intent)) |-> None]

NewTracker(intent) == [intent |-> intent, slots |-> InitializeSlots(intent)]

\* StateTracker.update skipping a slot whose value is the sentinel instead of
\* clearing it
UpdateSlots_SkipsNull(slots, written) ==
    [slot \in (DOMAIN slots) \cup {k \in DOMAIN written : written[k] \notin {"null", None}} |->
        IF slot \in DOMAIN written /\ written[slot] \notin {"null", None}
        THEN written[slot]
        ELSE slots[slot]]

\* StateTracker.update: every slot of the nested mapping is written, the
\* sentinel "null" and None become None, any other value is stored as is
UpdateSlots(slots, written) ==
    [slot \in (DOMAIN slots) \cup (DOMAIN written) |->
        IF slot \in DOMAIN written
        THEN (IF written[slot] \in {"null", None} THEN None ELSE written[slot])
        ELSE slots[slot]]

Update(tracker, nlu) ==
    [intent |-> tracker.intent, slots |-> UpdateSlots(tracker.slots, nlu.slots)]

\* StateTracker.serialize leaving out the keys whose value is None
Serialize_OmitsUnset(tracker) ==
    [kind |-> "state",
     intent |-> tracker.intent,
     slots |-> [k \in {j \in DOMAIN tracker.slots : tracker.slots[j] # None} |->
                   tracker.slots[k]]]

\* StateTracker.serialize: intent plus every key of the mapping, None as "null"
Serialize(tracker) ==
    [kind |-> "state",
     intent |-> tracker.intent,
     slots |-> [k \in DOMAIN tracker.slots |->
                   IF tracker.slots[k] # None THEN tracker.slots[k] ELSE "null"]]

\* order in which the dict of a tracker lists its keys: the table's order,
\* then the keys update added (the model's observations add at most "brewery")
SlotOrder(tracker) ==
    intent_slots(tracker.intent) \o
    (IF "brewery" \in DOMAIN tracker.slots /\ "brewery" \notin Range(intent_slots(tracker.intent))
     THEN <<"brewery">> ELSE <<>>)

\* --------------------------------------------------------- DM._update_states
\* index of the first tracker with that intent, 0 if there is none
FindIntent(stack, intent) ==
    IF \E i \in 1..Len(stack) : stack[i].intent = intent
    THEN CHOOSE i \in 1..Len(stack) :
            /\ stack[i].intent = intent
            /\ \A j \in 1..(i - 1) : stack[j].intent # intent
    ELSE 0

\* _update_states without the search for an existing tracker
MergeOne_AlwaysAppend(stack, nlu) ==
    Append(stack, Update(NewTracker(nlu.intent), nlu))

\* one pass of the loop body of _update_states
MergeOne(stack, nlu) ==
    LET i == FindIntent(stack, nlu.intent) IN
    IF i # 0
    THEN [stack EXCEPT ![i] = Update(stack[i], nlu)]
    ELSE Append(stack, Update(NewTracker(nlu.intent), nlu))

RECURSIVE UpdateStates(_, _)
UpdateStates(stack, nlu_inputs) ==
    IF nlu_inputs = <<>> THEN stack
    ELSE UpdateStates(MergeOne(stack, Head(nlu_inputs)), Tail(nlu_inputs))

\* ------------------------------------------------------------- BeerDataset
\* the table read by BeerDataset.__init__ (numbers in tenths); the two user
\* columns do not exist until the first rating is recorded
Catalog ==
    << [Id |-> 101, Name |-> "Duvel", Style |-> "belgian strong ale", Brewery |-> "Moortgat",
        ABV |-> 85, MinIBU |-> 30, MaxIBU |-> 35, Rating |-> 42,
        UserRating |-> Missing, UserComment |-> Missing],
       [Id |-> 102, Name |-> "Punk IPA", Style |-> "ipa", Brewery |-> "BrewDog",
        ABV |-> 54, MinIBU |-> 35, MaxIBU |-> 45, Rating |-> 39,
        UserRating |-> Missing, UserComment |-> Missing],
       [Id |-> 103, Name |-> "Duvel", Style |-> "belgian strong ale", Brewery |-> "Moortgat",
        ABV |-> 68, MinIBU |-> 30, MaxIBU |-> 35, Rating |-> 40,
        UserRating |-> Missing, UserComment |-> Missing] >>

\* a larger table: two spellings of one style, a style that holds another as
\* a substring, more rows than the cap of a query, the best rating last
Cellar ==
    << [Id |-> 201, Name |-> "Urquell", Style |-> "pilsener", Brewery |-> "Plzensky",
        ABV |-> 44, MinIBU |-> 30, MaxIBU |-> 40, Rating |-> 38,
        UserRating |-> Missing, UserComment |-> Missing],
       [Id |-> 202, Name |-> "Duvel", Style |-> "belgian strong ale", Brewery |-> "Moortgat",
        ABV |-> 85, MinIBU |-> 30, MaxIBU |-> 35, Rating |-> 42,
        UserRating |-> Missing, UserComment |-> Missing],
       [Id |-> 203, Name |-> "Jever", Style |-> "pilsnerbier", Brewery |-> "Friesisches",
        ABV |-> 49, MinIBU |-> 35, MaxIBU |-> 45, Rating |-> 36,
        UserRating |-> Missing, UserComment |-> Missing],
       [Id |-> 204, Name |-> "Punk IPA", Style |-> "american ipa", Brewery |-> "BrewDog",
        ABV |-> 54, MinIBU |-> 35, MaxIBU |-> 45, Rating |-> 39,
        UserRating |-> Missing, UserComment |-> Missing],
       [Id |-> 205, Name |-> "Duvel", Style |-> "belgian strong ale", Brewery |-> "Moortgat",
        ABV |-> 68, MinIBU |-> 30, MaxIBU |-> 35, Rating |-> 40,
        UserRating |-> Missing, UserComment |-> Missing],
       [Id |-> 206, Name |-> "Jaipur", Style |-> "india pale ale", Brewery |-> "Thornbridge",
        ABV |-> 59, MinIBU |-> 50, MaxIBU |-> 60, Rating |-> 41,
        UserRating |-> Missing, UserComment |-> Missing],
       [Id |-> 207, Name |-> "Hardcore", Style |-> "american ipa", Brewery |-> "BrewDog",
        ABV |-> 92, MinIBU |-> 80, MaxIBU |-> 99, Rating |-> 47,
        UserRating |-> Missing, UserComment |-> Missing] >>

\* the same table with a row whose style is a query string itself
Taproom ==
    Cellar \o
    << [Id |-> 208, Name |-> "Bitburger", Style |-> "pilsner", Brewery |-> "Bitburger",
        ABV |-> 48, MinIBU |-> 30, MaxIBU |-> 38, Rating |-> 35,
        UserRating |-> Missing, UserComment |-> Missing] >>

\* a data frame: the index labels of the rows kept, in order
AllRows(data) == [i \in 1..Len(data) |-> i]

\* rapidfuzz scores (0..100, rounded down) of the query strings against the
\* tables' texts: equal strings score 100, a style holding every token of the
\* query scores 100 (token_set_ratio), two single words score
\* 200 * lcs / (len + len); every other pair the model compares is scored 0,
\* being below the lowest cut-off applied to it
Score(query, text) ==
    CASE query = text -> 100
      [] <<query, text>> = <<"ipa", "american ipa">> -> 100
      [] <<query, text>> = <<"pilsner", "pilsener">> -> 93
      [] <<query, text>> = <<"pilsner", "pilsnerbier">> -> 77
      [] <<query, text>> = <<"pilsners", "pilsner">> -> 93
      [] <<query, text>> = <<"pilsners", "pilsener">> -> 87
      [] <<query, text>> = <<"pilsners", "pilsnerbier">> -> 73
      [] <<query, text>> = <<"pils", "pilsner">> -> 72
      [] <<query, text>> = <<"pils", "pilsener">> -> 66
      [] <<query, text>> = <<"pils", "pilsnerbier">> -> 53
      [] OTHER -> 0

\* the name column as _filter_by_name cleans it (lower case, no parentheses,
\* no punctuation, single spaces)
NameClean(name) == Lower(name)

\* df[mask]: the rows of the frame whose index label is in keep, in order
SelectRows(df, keep) ==
    LET Kept(i) == i \in keep
    IN  SelectSeq(df, Kept)

\* the numbers of the loop shared by _filter_by_name and _filter_by_brewery
StartThreshold == 90
FloorThreshold == 30
CeilThreshold == 100
LowerStep == 5
RaiseStep == 1
MaxRows == 10

\* line 210: no row matched and the floor is not reached
LoopLowers(n, t) == n = 0 /\ t > FloorThreshold

\* line 212 with the ceiling one too low
LoopRaises_CeilingOffByOne(n, t) == n > MaxRows /\ t < CeilThreshold - 1

\* line 212: more than ten rows matched and the ceiling is not reached
LoopRaises(n, t) == n > MaxRows /\ t < CeilThreshold

\* the loop shared by _filter_by_name and _filter_by_brewery; text[i] is the
\* compared column of row i
RECURSIVE AdaptiveLoop(_, _, _, _)
AdaptiveLoop(query, df, text, t) ==
    LET matched == {text[i] : i \in {j \in Range(df) : Score(query, text[j]) >= t}}
        result == SelectRows(df, {i \in Range(df) : text[i] \in matched})
    IN  IF LoopLowers(Len(result), t)
        THEN AdaptiveLoop(query, df, text, t - LowerStep)
        ELSE IF LoopRaises(Len(result), t)
        THEN AdaptiveLoop(query, df, text, t + RaiseStep)
        ELSE result

FilterByName(query, data, df) ==
    AdaptiveLoop(Lower(query), df, [i \in 1..Len(data) |-> NameClean(data[i].Name)], 90)

FilterByBrewery(query, data, df) ==
    AdaptiveLoop(query, df, [i \in 1..Len(data) |-> data[i].Brewery], 90)

\* level -> (low, high) of _filter_by_abv, in tenths
AbvBounds(level) ==
    CASE level = "low" -> <<0, 49>>
      [] level = "medium" -> <<50, 79>>
      [] level = "high" -> <<80, 1000>>
      [] OTHER -> <<0, 1000>>

FilterByAbv(level, data, df) ==
    LET b == AbvBounds(level)
    IN  SelectRows(df, {i \in Range(df) : data[i].ABV >= b[1] /\ data[i].ABV <= b[2]})

\* level -> (low, high) of _filter_by_ibu
IbuRanges(level) ==
    CASE level = "low" -> <<0, 20>>
      [] level = "medium" -> <<21, 60>>
      [] level = "high" -> <<61, 120>>
      [] OTHER -> <<0, 120>>

FilterByIbu(level, data, df) ==
    LET r == IbuRanges(level)
    IN  SelectRows(df, {i \in Range(df) : data[i].MaxIBU >= r[1] /\ data[i].MinIBU <= r[2]})

\* float(val) in tenths, -1 when float() raises
ToFloat(val) ==
    CASE val = "4" -> 40
      [] val = "5" -> 50
      [] OTHER -> -1

FilterByRating(val, data, df) ==
    IF ToFloat(val) = -1 THEN df
    ELSE SelectRows(df, {i \in Range(df) : data[i].Rating >= ToFloat(val)})

\* what _filter_by_style gives when line 194 takes the truth value of a data
\* frame: DataFrame.__bool__ raises ValueError for every frame, empty or not
ValueError == <<-1>>

\* re.findall(r"\w+", q) and str.contains on the strings the model uses
Tokens(q) == IF q = "strong ale" THEN {"strong", "ale"} ELSE {q}
Contains(text, token) ==
    \/ text = token
    \/ <<text, token>> \in {<<"belgian strong ale", "strong">>, <<"belgian strong ale", "ale">>,
                            <<"belgian strong ale", "belgian">>, <<"american ipa", "ipa">>,
                            <<"pilsnerbier", "pilsner">>, <<"pilsnerbier", "pils">>,
                            <<"pilsner", "pils">>, <<"pilsener", "pils">>}

\* lines 172-179: the rows whose style is the style of a row holding every
\* token of the query
SubstrRows(q, data, df) ==
    LET substr_styles == {data[i].Style : i \in {j \in Range(df) :
                             \A token \in Tokens(q) : Contains(Lower(data[j].Style), token)}}
    IN  {i \in Range(df) : data[i].Style \in substr_styles}

\* lines 181-189: the rows whose style reaches the first of the cut-offs
\* 90, 85, 80, 75 that any style reaches (the tables hold fewer distinct
\* styles than the limit of process.extract)
FuzzyRows(q, data, df) ==
    LET Cut(t) == {data[i].Style : i \in {j \in Range(df) : Score(q, data[j].Style) >= t}}
        fuzzy_styles == IF Cut(90) # {} THEN Cut(90)
                        ELSE IF Cut(85) # {} THEN Cut(85)
                        ELSE IF Cut(80) # {} THEN Cut(80)
                        ELSE Cut(75)
    IN  {i \in Range(df) : data[i].Style \in fuzzy_styles}

\* DataFrame.drop_duplicates(): the first occurrence of every row is kept
RECURSIVE DropDuplicates(_)
DropDuplicates(df) ==
    IF df = <<>> THEN <<>>
    ELSE LET front == DropDuplicates(SubSeq(df, 1, Len(df) - 1))
         IN  IF df[Len(df)] \in Range(front) THEN front ELSE Append(front, df[Len(df)])

\* lines 191-194 returning the substring rows whenever both frames have rows
CombineStyle_PrefersSubstr(df_substr, df_fuzzy) ==
    IF df_substr # <<>> /\ df_fuzzy # <<>> THEN df_substr ELSE ValueError

\* lines 191-194: with rows in both frames their inner merge (the rows of the
\* left frame that are in the right one) or, when that is empty, the left
\* frame followed by the right one without duplicates; otherwise line 194
CombineStyle(df_substr, df_fuzzy) ==
    LET InFuzzy(i) == i \in Range(df_fuzzy)
        intersect == SelectSeq(df_substr, InFuzzy)
    IN  IF df_substr # <<>> /\ df_fuzzy # <<>>
        THEN (IF intersect # <<>> THEN intersect ELSE DropDuplicates(df_substr \o df_fuzzy))
        ELSE ValueError

\* _filter_by_style (the merge numbers its rows anew; the model keeps the
\* labels of the table)
FilterByStyle(query, data, df) ==
    LET q == Lower(query)
    IN  CombineStyle(SelectRows(df, SubstrRows(q, data, df)),
                     SelectRows(df, FuzzyRows(q, data, df)))

\* one pass of the loop of filter_by_intent over the slot items
ApplyFilter(key, value, data, df) ==
    IF df = ValueError \/ value = None \/ value = "null" THEN df
    ELSE CASE key = "style" -> FilterByStyle(value, data, df)
           [] key = "abv" -> FilterByAbv(value, data, df)
           [] key = "ibu" -> FilterByIbu(value, data, df)
           [] key = "rating" -> FilterByRating(value, data, df)
           [] key = "name" -> FilterByName(value, data, df)
           [] key = "brewery" -> FilterByBrewery(value, data, df)
           [] OTHER -> df

RECURSIVE ApplyFilters(_, _, _, _)
ApplyFilters(keys, slots, data, df) ==
    IF keys = <<>> THEN df
    ELSE ApplyFilters(Tail(keys), slots, data, ApplyFilter(Head(keys), slots[Head(keys)], data, df))

\* df.sort_values(by="Rating", ascending=False); the ratings of the table differ
RECURSIVE SortByRating(_, _)
SortByRating(data, df) ==
    IF df = <<>> THEN <<>>
    ELSE LET best == CHOOSE i \in Range(df) : \A j \in Range(df) : data[i].Rating >= data[j].Rating
         IN  <<best>> \o SortByRating(data, SelectRows(df, Range(df) \ {best}))

Head5(df) == IF Len(df) <= 5 THEN df ELSE SubSeq(df, 1, 5)

\* _format_json: the projected rows ("id" is the index label of the row)
FormatJson(data, df) ==
    [kind |-> "beers",
     beers |-> [n \in 1..Len(df) |->
                  [id |-> df[n] - 1, name |-> data[df[n]].Name, style |-> data[df[n]].Style,
                   brewery |-> data[df[n]].Brewery, abv |-> data[df[n]].ABV,
                   min_ibu |-> data[df[n]].MinIBU, max_ibu |-> data[df[n]].MaxIBU,
                   rating |-> data[df[n]].Rating]]]

\* what a call returns to the decision engine: Python's None, or an exception
NoResult == [kind |-> "None"]
Raised == [kind |-> "ValueError"]

\* filter_by_intent: None for no row; the style filter's exception propagates
FilterByIntent(data, tracker_keys, slots, intent) ==
    LET df == ApplyFilters(tracker_keys, slots, data, AllRows(data))
    IN  IF df = ValueError THEN Raised
        ELSE IF df = <<>> THEN NoResult
        ELSE IF intent = "get_top_rated" THEN FormatJson(data, Head5(SortByRating(data, df)))
        ELSE FormatJson(data, Head5(df))

\* f'"{comment}"'
Quoted(comment) == IF comment = "good" THEN "\"good\"" ELSE comment

SlotGet(slots, key) == IF key \in DOMAIN slots THEN slots[key] ELSE None

\* names scoring at least 85 against the query, best first (process.extract)
RatingMatch(data, name) ==
    IF \E i \in 1..Len(data) : Score(name, data[i].Name) >= 85
    THEN data[CHOOSE i \in 1..Len(data) :
            /\ Score(name, data[i].Name) >= 85
            /\ \A j \in 1..Len(data) : Score(name, data[i].Name) >= Score(name, data[j].Name)
            /\ \A j \in 1..(i - 1) : Score(name, data[j].Name) < Score(name, data[i].Name)].Name
    ELSE None

\* DataFrame.to_csv(path, index=False): the rows as the file holds them; a
\* cell that is None is written as the empty field, a column the frame does
\* not have is not written
ToCsv(data) ==
    [i \in 1..Len(data) |->
        [data[i] EXCEPT !.UserRating = IF @ = None THEN "" ELSE @,
                        !.UserComment = IF @ = None THEN "" ELSE @]]

\* no call of to_csv was made
NotWritten == <<-2>>

\* record_user_rating with lines 85-88 before the search of line 74: the two
\* columns are added even when no name matches
RecordUserRating_ColumnsFirst(data, slots) ==
    LET name == SlotGet(slots, "name")
        rating == SlotGet(slots, "rating")
        comment == SlotGet(slots, "comment")
        matched_name == IF name = None THEN None ELSE RatingMatch(data, name)
        first == CHOOSE i \in 1..Len(data) :
                    data[i].Name = matched_name /\ \A j \in 1..(i - 1) : data[j].Name # matched_name
        WithColumns(row) ==
            [row EXCEPT !.UserRating = IF @ = Missing THEN None ELSE @,
                        !.UserComment = IF @ = Missing THEN None ELSE @]
        Rated(row) ==
            IF row.Name # matched_name THEN WithColumns(row)
            ELSE [WithColumns(row) EXCEPT
                    !.UserRating = rating,
                    !.UserComment = IF comment # None /\ comment # "" THEN Quoted(comment) ELSE @]
    IN  IF name = None \/ rating = None
        THEN [data |-> data, csv |-> NotWritten, payload |-> NoResult]
        ELSE IF matched_name = None
        THEN [data |-> [i \in 1..Len(data) |-> WithColumns(data[i])], csv |-> NotWritten,
              payload |-> NoResult]
        ELSE [data |-> [i \in 1..Len(data) |-> Rated(data[i])],
              csv |-> ToCsv([i \in 1..Len(data) |-> Rated(data[i])]),
              payload |-> [kind |-> "rated",
                           beer |-> [name |-> data[first].Name, brewery |-> data[first].Brewery,
                                     new_rating |-> rating, comment |-> comment]]]

\* record_user_rating writing to the first matched row only
RecordUserRating_FirstRowOnly(data, slots) ==
    LET name == SlotGet(slots, "name")
        rating == SlotGet(slots, "rating")
        comment == SlotGet(slots, "comment")
        matched_name == IF name = None THEN None ELSE RatingMatch(data, name)
        first == CHOOSE i \in 1..Len(data) :
                    data[i].Name = matched_name /\ \A j \in 1..(i - 1) : data[j].Name # matched_name
        WithColumns(row) ==
            [row EXCEPT !.UserRating = IF @ = Missing THEN None ELSE @,
                        !.UserComment = IF @ = Missing THEN None ELSE @]
        Rated(i) ==
            IF i # first THEN WithColumns(data[i])
            ELSE [WithColumns(data[i]) EXCEPT
                    !.UserRating = rating,
                    !.UserComment = IF comment # None /\ comment # "" THEN Quoted(comment) ELSE @]
    IN  IF name = None \/ rating = None \/ matched_name = None
        THEN [data |-> data, csv |-> NotWritten, payload |-> NoResult]
        ELSE [data |-> [i \in 1..Len(data) |-> Rated(i)],
              csv |-> ToCsv([i \in 1..Len(data) |-> Rated(i)]),
              payload |-> [kind |-> "rated",
                           beer |-> [name |-> data[first].Name, brewery |-> data[first].Brewery,
                                     new_rating |-> rating, comment |-> comment]]]

\* record_user_rating: [data |-> the table afterwards, csv |-> what to_csv
\* wrote to the file, payload |-> the return value]
RecordUserRating(data, slots) ==
    LET name == SlotGet(slots, "name")
        rating == SlotGet(slots, "rating")
        comment == SlotGet(slots, "comment")
        matched_name == IF name = None THEN None ELSE RatingMatch(data, name)
        first == CHOOSE i \in 1..Len(data) :
                    data[i].Name = matched_name /\ \A j \in 1..(i - 1) : data[j].Name # matched_name
        WithColumns(row) ==
            [row EXCEPT !.UserRating = IF @ = Missing THEN None ELSE @,
                        !.UserComment = IF @ = Missing THEN None ELSE @]
        Rated(row) ==
            IF row.Name # matched_name THEN WithColumns(row)
            ELSE [WithColumns(row) EXCEPT
                    !.UserRating = rating,
                    !.UserComment = IF comment # None /\ comment # "" THEN Quoted(comment) ELSE @]
    IN  IF name = None \/ rating = None \/ matched_name = None
        THEN [data |-> data, csv |-> NotWritten, payload |-> NoResult]
        ELSE [data |-> [i \in 1..Len(data) |-> Rated(data[i])],
              csv |-> ToCsv([i \in 1..Len(data) |-> Rated(data[i])]),
              payload |-> [kind |-> "rated",
                           beer |-> [name |-> data[first].Name, brewery |-> data[first].Brewery,
                                     new_rating |-> rating, comment |-> comment]]]

\* ------------------------------------------------------ the collaborators
\* intents the understanding step emits (VALID_INTENTS)
ObsIntents ==
    {"get_beer_info", "get_top_rated", "rate_beer", "out_of_context", "terminate_system"}

\* values an observation may carry for a slot; "null" is the explicit absence
ObsValues(slot) ==
    CASE slot = "name" -> {"null", "Duvel", "zzz"}
      [] slot = "style" -> {"null", "ipa", "stout"}
      [] slot = "brewery" -> {"null", "Moortgat"}
      [] slot = "abv" -> {"null", "high"}
      [] slot = "ibu" -> {"null", "medium"}
      [] slot = "rating" -> {"null", "4"}
      [] slot = "comment" -> {"null", "good"}
      [] OTHER -> {"null"}

SlotNames == {"style", "abv", "ibu", "rating", "name", "brewery", "comment"}
AllValues == UNION {ObsValues(slot) : slot \in SlotNames}

\* slot names an observation of that intent may write: the intent's own, and
\* for get_top_rated one the static table does not list for it
ObsSlots(intent) ==
    Range(intent_slots(intent)) \cup (IF intent = "get_top_rated" THEN {"brewery"} ELSE {})

Writes(intent) ==
    UNION {{f \in [D -> AllValues] : \A k \in D : f[k] \in ObsValues(k)} :
             D \in SUBSET ObsSlots(intent)}

Obs == UNION {{[intent |-> i, slots |-> f] : f \in Writes(i)} : i \in ObsIntents}

\* what json.loads returns for a reply of the collaborator; parsed = FALSE
\* stands for a reply that does not parse
Unparseable == [parsed |-> FALSE, action |-> Missing, parameter |-> Missing]
Replies ==
    {Unparseable}
    \cup [parsed : {TRUE}, action : {"request_info"},
          parameter : {"name", "brewery", "style", "rating", "", "Null"}]
    \cup [parsed : {TRUE}, action : {"confirmation"}, parameter : ObsIntents \cup {"", "Null"}]
    \cup [parsed : {TRUE}, action : {"check_info", "small_talk", Missing}, parameter : {"name"}]

\* ---------------------------------------------- DM._check_response_validity
FullSlots(state) == \A k \in DOMAIN state.slots : state.slots[k] # None

\* the validity check without line 157-158 (a confirmation on unset slots)
CheckResponseValidity_NoIncompleteRule(nba, state) ==
    LET action == nba.action
        parameter == nba.parameter
    IN  IF action \notin {"request_info", "confirmation"} THEN FALSE
        ELSE IF parameter = "" \/ Lower(parameter) \in {"none", "null"} THEN FALSE
        ELSE IF action = "request_info" /\ SlotGet(state.slots, parameter) # None THEN FALSE
        ELSE IF FullSlots(state) /\ action # "confirmation" THEN FALSE
        ELSE IF state.intent = "get_beer_info"
        THEN \/ (parameter = "name" /\ action = "request_info")
             \/ (SlotGet(state.slots, "name") # None /\ action = "confirmation")
        ELSE TRUE

\* the validity check without line 155-156 (a request on a complete tracker)
CheckResponseValidity_NoCompleteRule(nba, state) ==
    LET action == nba.action
        parameter == nba.parameter
    IN  IF action \notin {"request_info", "confirmation"} THEN FALSE
        ELSE IF parameter = "" \/ Lower(parameter) \in {"none", "null"} THEN FALSE
        ELSE IF action = "request_info" /\ SlotGet(state.slots, parameter) # None THEN FALSE
        ELSE IF ~FullSlots(state) /\ action # "request_info" THEN FALSE
        ELSE IF state.intent = "get_beer_info"
        THEN \/ (parameter = "name" /\ action = "request_info")
             \/ (SlotGet(state.slots, "name") # None /\ action = "confirmation")
        ELSE TRUE

CheckResponseValidity(nba, state) ==
    LET action == nba.action
        parameter == nba.parameter
    IN  IF action \notin {"request_info", "confirmation"} THEN FALSE
        ELSE IF parameter = "" \/ Lower(parameter) \in {"none", "null"} THEN FALSE
        ELSE IF action = "request_info" /\ SlotGet(state.slots, parameter) # None THEN FALSE
        ELSE IF FullSlots(state) /\ action # "confirmation" THEN FALSE
        ELSE IF ~FullSlots(state) /\ action # "request_info" THEN FALSE
        ELSE IF state.intent = "get_beer_info"
        THEN \/ (parameter = "name" /\ action = "request_info")
             \/ (SlotGet(state.slots, "name") # None /\ action = "confirmation")
        ELSE TRUE

\* ------------------------------------------------- DM._handle_confirmation
\* [call |-> the catalog operation invoked, slots |-> the slot values passed,
\*  result |-> the return value, data |-> the table afterwards, csv |-> what
\*  was written to the file]
NoSlots == [k \in {} |-> None]

\* line 182: the dispatch to record_user_rating, r being what it did
RatingDispatch(slots, r) ==
    [call |-> "record_user_rating", slots |-> slots,
     result |-> r.payload, data |-> r.data, csv |-> r.csv]

HandleConfirmation(nba_confirm, stack, data) ==
    LET target_intent == nba_confirm.parameter
        t == FindIntent(stack, target_intent)
    IN  IF t = 0
        THEN [call |-> "none", slots |-> NoSlots, result |-> NoResult, data |-> data, csv |-> NotWritten]
        ELSE IF target_intent \in {"get_beer_recommendation", "get_beer_info",
                                   "list_beers_by_brewery", "get_top_rated"}
        THEN [call |-> "filter_by_intent", slots |-> stack[t].slots,
              result |-> FilterByIntent(data, SlotOrder(stack[t]), stack[t].slots, target_intent),
              data |-> data, csv |-> NotWritten]
        ELSE IF target_intent = "rate_beer"
        THEN RatingDispatch(stack[t].slots, RecordUserRating(data, stack[t].slots))
        ELSE IF target_intent = "out_of_context"
        THEN [call |-> "none", slots |-> NoSlots,
              result |-> [kind |-> "text", text |-> "Intent out_of_context"], data |-> data,
              csv |-> NotWritten]
        ELSE [call |-> "none", slots |-> NoSlots, result |-> NoResult, data |-> data, csv |-> NotWritten]

\* ---------------------------------------------------------------- DM.__call__
VARIABLES
    eval_mode,        \* DM.eval_mode
    state_stack,      \* DM.state_stack: the registry
    data,             \* DM.dataset.data: the table in memory
    pc,               \* where DM.__call__ is: "idle", "merge", "cycle", "crashed", and
                      \* "terminated" once it returned ["terminate_system"]
    batch_left,       \* observations of nlu_inputs still to merge
    idx,              \* index of the tracker the loop of line 75 is at
    final_actions,    \* the local list final_actions, which is only appended to
                      \* and returned: its length and its last element
    remove_indices,   \* the local list remove_indices
    result,           \* the local variable result
    queried,          \* _query_model was called by the current call
    single_terminate, \* the batch of the current call was one terminate_system observation
    cycle,            \* the last finished cycle: the reply accepted and the dispatch made
    resolved,         \* indices whose cycle dispatched a Confirmation naming the
                      \* processed tracker's own intent, on its slots, with a result
    disk,             \* the file at BeerDataset.path
    obs_log,          \* the last observations merged one after the other (at most two)
    stack_log,        \* the registry before the first observation of obs_log
    serialized,       \* what the last StateTracker.update returned
    removed,          \* the tracker line 106 dropped last, as it was when dropped
    call,             \* the last call of the catalog: its arguments and its return value
    count,            \* rows matched at each threshold by the query of the adaptive loop
    threshold,        \* the local variable threshold of the adaptive loop
    loop_pc,          \* where the adaptive loop is: "idle", "loop", "returned"
    memory,           \* History._memory
    max_turns,        \* History.max_turns
    pushed,           \* the entries pushed since the buffer was last cleared
    hist_call,        \* the last call on the History
    history_limit,    \* the attribute history_limit a component sets on its History
    sessions,         \* per session: whether its BeerDataset exists, and its self.data
    persisted         \* per session: the rating its last to_csv wrote

dm_vars == <<eval_mode, state_stack, data, pc, batch_left, idx, final_actions, remove_indices,
             result, queried, single_terminate, cycle, resolved, disk>>
engine_vars == <<eval_mode, state_stack, pc, batch_left, idx, final_actions, remove_indices,
                 result, queried, single_terminate, cycle, resolved>>
registry_vars == <<obs_log, stack_log, serialized, removed>>
catalog_vars == <<call>>
loop_vars == <<count, threshold, loop_pc>>

history_vars == <<memory, max_turns, pushed, hist_call, history_limit>>
session_vars == <<sessions, persisted>>

vars == <<dm_vars, registry_vars, catalog_vars, loop_vars, history_vars, session_vars>>

Unbound == [kind |-> "unbound"]
NoAction == [action |-> Missing, parameter |-> Missing, data |-> Unbound]
NoCycle ==
    [parsed |-> [action |-> Missing, parameter |-> Missing],
     call |-> "none", slots |-> NoSlots, empty |-> FALSE]

\* line 72
EmptyActions == [len |-> 0, last |-> NoAction]

\* lines 100-104
AppendAction(actions, a) == [len |-> actions.len + 1, last |-> a]

\* no update, no catalog call and no adaptive loop has run
NoCall == [op |-> "none"]
NoTracker == [intent |-> Missing, slots |-> NoSlots]
RegistryIdle == obs_log = <<>> /\ stack_log = <<>> /\ serialized = Unbound /\ removed = NoTracker
CatalogIdle == call = NoCall
LoopIdle == count = <<>> /\ threshold = 0 /\ loop_pc = "idle"
HistoryIdle ==
    memory = <<>> /\ max_turns = 0 /\ pushed = <<>> /\ hist_call = NoCall /\ history_limit = 0

\* the two sessions sharing the file, and the rating none of them has written
Sessions == {"A", "B"}
NoRating == [name |-> None, rating |-> None]
SessionsIdle ==
    /\ sessions = [s \in Sessions |-> [pc |-> "new", data |-> <<>>]]
    /\ persisted = [s \in Sessions |-> NoRating]

\* DM.__init__ with the table and the file of BeerDataset.__init__
InitDM(table) ==
    /\ state_stack = <<>>
    /\ data = table
    /\ disk = ToCsv(table)
    /\ pc = "idle"
    /\ batch_left = 0
    /\ idx = 1
    /\ final_actions = EmptyActions
    /\ remove_indices = {}
    /\ result = Unbound
    /\ queried = FALSE
    /\ single_terminate = FALSE
    /\ cycle = NoCycle
    /\ resolved = {}

Init ==
    /\ eval_mode \in BOOLEAN
    /\ InitDM(Catalog)
    /\ RegistryIdle
    /\ CatalogIdle
    /\ LoopIdle
    /\ HistoryIdle
    /\ SessionsIdle

\* line 67 comparing with another label
IsTerminateSignal_OtherLabel(len, first_intent) == len = 1 /\ first_intent = "terminate"

\* line 67
IsTerminateSignal(len, first_intent) == len = 1 /\ first_intent = "terminate_system"

\* lines 67-68: the short-circuit
Terminate ==
    /\ pc = "idle"
    /\ \E nlu \in Obs :
         /\ IsTerminateSignal(1, nlu.intent)
         /\ single_terminate' = (nlu.intent = "terminate_system")
    /\ pc' = "terminated"
    /\ UNCHANGED <<eval_mode, state_stack, data, batch_left, idx, final_actions,
                   remove_indices, result, queried, cycle, resolved>>
    /\ UNCHANGED <<disk, registry_vars, catalog_vars, loop_vars, history_vars, session_vars>>

\* line 70 for an empty batch: nothing to merge, the cycles start
BeginEmpty ==
    /\ pc = "idle"
    /\ pc' = "cycle"
    /\ single_terminate' = FALSE
    /\ UNCHANGED <<eval_mode, state_stack, data, batch_left, idx, final_actions,
                   remove_indices, result, queried, cycle, resolved>>
    /\ UNCHANGED <<disk, registry_vars, catalog_vars, loop_vars, history_vars, session_vars>>

\* line 70: the first observation of a batch of n is merged
BeginTurn ==
    /\ pc = "idle"
    /\ \E n \in 1..MaxBatch, nlu \in Obs :
         /\ ~IsTerminateSignal(n, nlu.intent)
         /\ Len(MergeOne(state_stack, nlu)) <= MaxTrackers
         /\ state_stack' = MergeOne(state_stack, nlu)
         /\ batch_left' = n - 1
         /\ pc' = IF n = 1 THEN "cycle" ELSE "merge"
         /\ single_terminate' = (n = 1 /\ nlu.intent = "terminate_system")
    /\ UNCHANGED <<eval_mode, data, idx, final_actions, remove_indices, result,
                   queried, cycle, resolved>>
    /\ UNCHANGED <<disk, registry_vars, catalog_vars, loop_vars, history_vars, session_vars>>

\* lines 110-121: the next observation of the batch is merged
Merge ==
    /\ pc = "merge"
    /\ \E nlu \in Obs :
         /\ Len(MergeOne(state_stack, nlu)) <= MaxTrackers
         /\ state_stack' = MergeOne(state_stack, nlu)
    /\ batch_left' = batch_left - 1
    /\ pc' = IF batch_left = 1 THEN "cycle" ELSE "merge"
    /\ UNCHANGED <<eval_mode, data, idx, final_actions, remove_indices, result,
                   queried, single_terminate, cycle, resolved>>
    /\ UNCHANGED <<disk, registry_vars, catalog_vars, loop_vars, history_vars, session_vars>>

\* line 87: the reply leaves the while loop
Accepted(reply, state) ==
    reply.parsed /\ (eval_mode \/ CheckResponseValidity(reply, state))

\* lines 80-87: a reply that does not parse, or is not valid, is asked again
Retry ==
    /\ pc = "cycle"
    /\ idx <= Len(state_stack)
    /\ \E reply \in Replies : ~Accepted(reply, state_stack[idx])
    /\ queried' = TRUE
    /\ UNCHANGED <<eval_mode, state_stack, data, pc, batch_left, idx, final_actions,
                   remove_indices, result, single_terminate, cycle, resolved>>
    /\ UNCHANGED <<disk, registry_vars, catalog_vars, loop_vars, history_vars, session_vars>>

\* lines 89-104 for the accepted reply `parsed`, h being what
\* _handle_confirmation did if line 90 called it: the values after the cycle
CycleOutcome(parsed, state, d, res, i, h) ==
    IF parsed.action = Missing
    THEN [crash |-> TRUE, data |-> d, csv |-> NotWritten]
    ELSE IF parsed.action = "confirmation"
    THEN IF h.result = Raised
         THEN [crash |-> TRUE, data |-> h.data, csv |-> h.csv]
         ELSE IF h.result # NoResult
         THEN [crash |-> FALSE, data |-> h.data, csv |-> h.csv, remove |-> {i}, result |-> h.result,
               action |-> [action |-> "confirmation", parameter |-> parsed.parameter,
                           data |-> h.result],
               call |-> h.call, slots |-> h.slots, empty |-> FALSE]
         ELSE [crash |-> FALSE, data |-> h.data, csv |-> h.csv, remove |-> {}, result |-> Serialize(state),
               action |-> [action |-> "check_info", parameter |-> parsed.parameter,
                           data |-> Serialize(state)],
               call |-> h.call, slots |-> h.slots, empty |-> TRUE]
    ELSE IF parsed.action = "request_info"
    THEN [crash |-> FALSE, data |-> d, csv |-> NotWritten, remove |-> {},
          result |-> [kind |-> "intent", intent |-> state.intent],
          action |-> [action |-> "request_info", parameter |-> parsed.parameter,
                      data |-> [kind |-> "intent", intent |-> state.intent]],
          call |-> "none", slots |-> NoSlots, empty |-> FALSE]
    ELSE IF res = Unbound
    THEN [crash |-> TRUE, data |-> d, csv |-> NotWritten]
    ELSE [crash |-> FALSE, data |-> d, csv |-> NotWritten, remove |-> {}, result |-> res,
          action |-> [action |-> parsed.action, parameter |-> parsed.parameter,
                      data |-> res],
          call |-> "none", slots |-> NoSlots, empty |-> FALSE]

\* lines 89-104 with the index scheduled for removal whatever the result
Cycle_RemovesOnEmpty(parsed, state, stack, d, res, i) ==
    LET c == CycleOutcome(parsed, state, d, res, i, HandleConfirmation(parsed, stack, d))
    IN  IF ~c.crash /\ c.empty THEN [c EXCEPT !.remove = {i}] ELSE c

\* lines 89-104 for the accepted reply `parsed`
Cycle(parsed, state, stack, d, res, i) ==
    CycleOutcome(parsed, state, d, res, i, HandleConfirmation(parsed, stack, d))

\* the cycle dispatched a Confirmation naming the intent of the tracker it
\* processed, on that tracker's slot values, and got a result
OwnConfirmation(parsed, state, c) ==
    /\ parsed.action = "confirmation"
    /\ parsed.parameter = state.intent
    /\ c.slots = IF c.call = "none" THEN NoSlots ELSE state.slots
    /\ ~c.empty

\* lines 89-104 did not raise: the cycle c of the reply is recorded
Decided(reply, c) ==
    /\ ~c.crash
    /\ data' = c.data
    /\ disk' = IF c.csv = NotWritten THEN disk ELSE c.csv
    /\ remove_indices' = remove_indices \cup c.remove
    /\ result' = c.result
    /\ final_actions' = AppendAction(final_actions, c.action)
    /\ cycle' = [parsed |-> [action |-> reply.action, parameter |-> reply.parameter],
                 call |-> c.call, slots |-> c.slots, empty |-> c.empty]
    /\ resolved' = IF OwnConfirmation(reply, state_stack[idx], c)
                   THEN resolved \cup {idx} ELSE resolved

\* lines 89-104 raised in the cycle c; what the catalog did before stays done
Crashed(c) ==
    /\ c.crash
    /\ data' = c.data
    /\ disk' = IF c.csv = NotWritten THEN disk ELSE c.csv

\* lines 80-104: a reply is accepted and the cycle of tracker idx ends
Decide ==
    /\ pc = "cycle"
    /\ idx <= Len(state_stack)
    /\ \E reply \in Replies :
         /\ Accepted(reply, state_stack[idx])
         /\ Decided(reply, Cycle(reply, state_stack[idx], state_stack, data, result, idx))
    /\ idx' = idx + 1
    /\ queried' = TRUE
    /\ UNCHANGED <<eval_mode, state_stack, pc, batch_left, single_terminate>>
    /\ UNCHANGED <<registry_vars, catalog_vars, loop_vars, history_vars, session_vars>>

\* lines 89-104 raise (KeyError, UnboundLocalError, the style filter's
\* ValueError): the call ends without a return value
Crash ==
    /\ pc = "cycle"
    /\ idx <= Len(state_stack)
    /\ \E reply \in Replies :
         /\ Accepted(reply, state_stack[idx])
         /\ Crashed(Cycle(reply, state_stack[idx], state_stack, data, result, idx))
    /\ pc' = "crashed"
    /\ queried' = TRUE
    /\ final_actions' = EmptyActions
    /\ remove_indices' = {}
    /\ result' = Unbound
    /\ cycle' = NoCycle
    /\ resolved' = {}
    /\ idx' = 1
    /\ UNCHANGED <<eval_mode, state_stack, batch_left, single_terminate>>
    /\ UNCHANGED <<registry_vars, catalog_vars, loop_vars, history_vars, session_vars>>

\* line 106
RemoveResolved(stack, remove) ==
    LET Kept == {i \in 1..Len(stack) : i \notin remove}
        Nth(n) == CHOOSE i \in Kept : Cardinality({j \in Kept : j < i}) = n - 1
    IN  [n \in 1..Cardinality(Kept) |-> stack[Nth(n)]]

\* lines 106-107: the call returns final_actions
EndTurn ==
    /\ pc = "cycle"
    /\ idx > Len(state_stack)
    /\ state_stack' = RemoveResolved(state_stack, remove_indices)
    /\ pc' = "idle"
    /\ queried' = FALSE
    /\ final_actions' = EmptyActions
    /\ remove_indices' = {}
    /\ result' = Unbound
    /\ cycle' = NoCycle
    /\ resolved' = {}
    /\ idx' = 1
    /\ UNCHANGED <<eval_mode, data, batch_left, single_terminate>>
    /\ UNCHANGED <<disk, registry_vars, catalog_vars, loop_vars, history_vars, session_vars>>

\* the caller takes the termination action; the next call may start
Resume ==
    /\ pc = "terminated"
    /\ pc' = "idle"
    /\ single_terminate' = FALSE
    /\ UNCHANGED <<eval_mode, state_stack, data, batch_left, idx, final_actions,
                   remove_indices, result, queried, cycle, resolved>>
    /\ UNCHANGED <<disk, registry_vars, catalog_vars, loop_vars, history_vars, session_vars>>

Next ==
    \/ Terminate
    \/ BeginEmpty
    \/ BeginTurn
    \/ Merge
    \/ Retry
    \/ Decide
    \/ Crash
    \/ EndTurn
    \/ Resume

Spec == Init /\ [][Next]_vars

\* the engine constructed with validation on (eval_mode = False)
InitValidating == Init /\ ~eval_mode
SpecValidating == InitValidating /\ [][Next]_vars

\* ------------------------------------------- the registry taken on its own
\* StateTracker and DM._update_states driven one observation at a time, with
\* line 106 removing a tracker in between
RegIntents == {"get_beer_info", "list_beers_by_brewery", "out_of_context"}

\* values an observation may carry; "null" and "none" are the two sentinels
RegValues(slot) ==
    CASE slot = "name" -> {"null", "none", "Duvel"}
      [] slot = "brewery" -> {"null", "none", "Moortgat"}
      [] OTHER -> {"ipa"}

\* slot names an observation may write: the intent's own, and for
\* out_of_context one the static table does not list
RegSlots(intent) ==
    Range(intent_slots(intent)) \cup (IF intent = "out_of_context" THEN {"style"} ELSE {})

RegWrites(intent) ==
    UNION {{f \in [D -> UNION {RegValues(k) : k \in D}] : \A k \in D : f[k] \in RegValues(k)} :
             D \in SUBSET RegSlots(intent)}

RegObs == UNION {{[intent |-> i, slots |-> f] : f \in RegWrites(i)} : i \in RegIntents}

InitRegistry ==
    /\ eval_mode = FALSE
    /\ InitDM(Catalog)
    /\ RegistryIdle
    /\ CatalogIdle
    /\ LoopIdle
    /\ HistoryIdle
    /\ SessionsIdle

\* lines 110-121 for one observation; update returns the serialization
MergeObservation ==
    /\ \E nlu \in RegObs :
         /\ Len(MergeOne(state_stack, nlu)) <= MaxTrackers
         /\ state_stack' = MergeOne(state_stack, nlu)
         /\ serialized' = Serialize(MergeOne(state_stack, nlu)
                                      [FindIntent(MergeOne(state_stack, nlu), nlu.intent)])
         /\ obs_log' = IF Len(obs_log) = 2 THEN <<obs_log[2], nlu>> ELSE Append(obs_log, nlu)
         /\ stack_log' = IF Len(obs_log) = 2 THEN MergeOne(stack_log, obs_log[1])
                          ELSE stack_log
    /\ UNCHANGED removed
    /\ UNCHANGED <<eval_mode, data, pc, batch_left, idx, final_actions, remove_indices,
                   result, queried, single_terminate, cycle, resolved, disk>>
    /\ UNCHANGED <<catalog_vars, loop_vars, history_vars, session_vars>>

\* line 106 for one resolved tracker
RemoveTracker ==
    /\ \E i \in 1..Len(state_stack) :
         /\ state_stack' = RemoveResolved(state_stack, {i})
         /\ stack_log' = RemoveResolved(state_stack, {i})
    /\ UNCHANGED removed
    /\ obs_log' = <<>>
    /\ serialized' = Unbound
    /\ UNCHANGED <<eval_mode, data, pc, batch_left, idx, final_actions, remove_indices,
                   result, queried, single_terminate, cycle, resolved, disk>>
    /\ UNCHANGED <<catalog_vars, loop_vars, history_vars, session_vars>>

NextRegistry ==
    \/ MergeObservation
    \/ RemoveTracker

SpecRegistry == InitRegistry /\ [][NextRegistry]_vars

\* ------------------------------------------- a tracker removed and created anew
\* lines 110-121 for one observation, with the registry it found
Observe ==
    /\ \E nlu \in RegObs :
         /\ Len(MergeOne(state_stack, nlu)) <= MaxTrackers
         /\ state_stack' = MergeOne(state_stack, nlu)
         /\ serialized' = Serialize(MergeOne(state_stack, nlu)
                                      [FindIntent(MergeOne(state_stack, nlu), nlu.intent)])
         /\ obs_log' = <<nlu>>
    /\ stack_log' = state_stack
    /\ UNCHANGED removed
    /\ UNCHANGED <<eval_mode, data, pc, batch_left, idx, final_actions, remove_indices,
                   result, queried, single_terminate, cycle, resolved, disk>>
    /\ UNCHANGED <<catalog_vars, loop_vars, history_vars, session_vars>>

\* line 106 for one resolved tracker, which is remembered as it was
Resolve ==
    /\ \E i \in 1..Len(state_stack) :
         /\ state_stack' = RemoveResolved(state_stack, {i})
         /\ stack_log' = RemoveResolved(state_stack, {i})
         /\ removed' = state_stack[i]
    /\ obs_log' = <<>>
    /\ serialized' = Unbound
    /\ UNCHANGED <<eval_mode, data, pc, batch_left, idx, final_actions, remove_indices,
                   result, queried, single_terminate, cycle, resolved, disk>>
    /\ UNCHANGED <<catalog_vars, loop_vars, history_vars, session_vars>>

NextRenewal ==
    \/ Observe
    \/ Resolve

SpecRenewal == InitRegistry /\ [][NextRenewal]_vars

\* --------------------------------------------------- the adaptive loop alone
\* lines 205-217 (and 222-234) step by step on the number of rows the query
\* matches at each threshold. A score cutoff keeps the rows scoring at least
\* the threshold, so that number does not increase with the threshold: all
\* thresholds up to many_upto match more than MaxRows rows, those up to
\* some_upto match some, the others none.
Thresholds == (FloorThreshold - LowerStep + 1)..CeilThreshold

CountFn(many_upto, some_upto) ==
    [t \in Thresholds |->
        IF t <= many_upto THEN MaxRows + 1
        ELSE IF t <= some_upto THEN MaxRows
        ELSE 0]

InitLoop ==
    /\ eval_mode = FALSE
    /\ InitDM(Catalog)
    /\ RegistryIdle
    /\ CatalogIdle
    /\ LoopIdle
    /\ HistoryIdle
    /\ SessionsIdle

\* line 196: the filter is called with the default threshold
StartLoop ==
    /\ loop_pc = "idle"
    /\ \E many_upto \in (FloorThreshold - LowerStep)..CeilThreshold :
         \E some_upto \in many_upto..CeilThreshold :
            count' = CountFn(many_upto, some_upto)
    /\ threshold' = StartThreshold
    /\ loop_pc' = "loop"
    /\ UNCHANGED <<dm_vars, registry_vars, catalog_vars, history_vars, session_vars>>

\* lines 210-211
LowerThreshold ==
    /\ loop_pc = "loop"
    /\ LoopLowers(count[threshold], threshold)
    /\ threshold' = threshold - LowerStep
    /\ UNCHANGED <<count, loop_pc, dm_vars, registry_vars, catalog_vars, history_vars, session_vars>>

\* lines 212-213
RaiseThreshold ==
    /\ loop_pc = "loop"
    /\ ~LoopLowers(count[threshold], threshold)
    /\ LoopRaises(count[threshold], threshold)
    /\ threshold' = threshold + RaiseStep
    /\ UNCHANGED <<count, loop_pc, dm_vars, registry_vars, catalog_vars, history_vars, session_vars>>

\* lines 214-217
ReturnRows ==
    /\ loop_pc = "loop"
    /\ ~LoopLowers(count[threshold], threshold)
    /\ ~LoopRaises(count[threshold], threshold)
    /\ loop_pc' = "returned"
    /\ UNCHANGED <<count, threshold, dm_vars, registry_vars, catalog_vars, history_vars, session_vars>>

\* the caller has the rows; the filter may be called again
NextQuery ==
    /\ loop_pc = "returned"
    /\ loop_pc' = "idle"
    /\ count' = <<>>
    /\ threshold' = 0
    /\ UNCHANGED <<dm_vars, registry_vars, catalog_vars, history_vars, session_vars>>

NextLoop ==
    \/ StartLoop
    \/ LowerThreshold
    \/ RaiseThreshold
    \/ ReturnRows
    \/ NextQuery

SpecLoop == InitLoop /\ [][NextLoop]_vars

\* the loop is sequential code: a step that can be taken is taken
SpecLoopFair == InitLoop /\ [][NextLoop]_vars /\ WF_vars(NextLoop)

\* ------------------------------------------------------- the catalog alone
\* BeerDataset called directly: the style filter, a query and a rating, on
\* one of two tables, with the arguments and the return value of the last
\* call kept in call
Catalogs == {Cellar, Taproom}

StyleQueries == {"ipa", "pilsner", "pilsners", "pils", "stout"}

QueryIntents ==
    {"get_beer_recommendation", "get_beer_info", "list_beers_by_brewery", "get_top_rated"}

\* values a slot passed to filter_by_intent may hold; None is the unset slot
QueryValues(slot) ==
    CASE slot = "style" -> {None, "ipa", "pilsner", "pils", "stout"}
      [] slot = "abv" -> {None, "high", "low"}
      [] slot = "ibu" -> {None, "medium"}
      [] slot = "rating" -> {None, "null", "4"}
      [] slot = "name" -> {None, "Duvel", "zzz"}
      [] slot = "brewery" -> {None, "BrewDog"}
      [] OTHER -> {None}

\* the slots of a tracker of that intent, or no slot at all
QuerySlots(intent) ==
    {NoSlots} \cup
    {f \in [Range(intent_slots(intent)) -> UNION {QueryValues(k) : k \in SlotNames}] :
        \A k \in DOMAIN f : f[k] \in QueryValues(k)}

\* the keys of the mapping in the order of the static table
QueryKeys(intent, slots) ==
    LET Present(k) == k \in DOMAIN slots
    IN  SelectSeq(intent_slots(intent), Present)

\* the slots of a rate_beer tracker
RateSlots ==
    [name : {None, "Duvel", "zzz"}, rating : {None, "4", "5"},
     comment : {None, "good"}]

\* the Python objects a query assigns columns on: "live" is self.data,
\* "snapshot" the deepcopy of line 30, "copy" any frame a filter made
\* line 30
Snapshot(obj) == "snapshot"

\* data.copy() at the head of a filter (lines 127, 141, 156, 197, 220); the
\* style filter takes none
FilterCopies(key) == key \in {"abv", "ibu", "rating", "name", "brewery"}

\* the columns a filter assigns on the frame it works on (lines 128, 142-143,
\* 157, 200-203)
FilterAssigns(key) ==
    CASE key = "abv" -> {"ABV"}
      [] key = "ibu" -> {"MinIBU", "MaxIBU"}
      [] key = "rating" -> {"Rating"}
      [] key = "name" -> {"Name_clean"}
      [] OTHER -> {}

\* the columns the filters of a query assign on self.data, every filter
\* assigning on the frame it was passed
RECURSIVE LiveAssigned_InPlace(_, _, _)
LiveAssigned_InPlace(keys, slots, obj) ==
    IF keys = <<>> THEN {}
    ELSE (IF slots[Head(keys)] \in {None, "null"} THEN {} ELSE FilterAssigns(Head(keys)))
         \cup LiveAssigned_InPlace(Tail(keys), slots, obj)

\* the columns the filters of a query assign on self.data: a filter assigns
\* on its copy, or on the frame it was passed when it takes none, and hands
\* on a selection, which is a frame of its own
RECURSIVE LiveAssigned(_, _, _)
LiveAssigned(keys, slots, obj) ==
    IF keys = <<>> THEN {}
    ELSE IF slots[Head(keys)] \in {None, "null"} THEN LiveAssigned(Tail(keys), slots, obj)
    ELSE (IF (IF FilterCopies(Head(keys)) THEN "copy" ELSE obj) = "live"
          THEN FilterAssigns(Head(keys)) ELSE {})
         \cup LiveAssigned(Tail(keys), slots, "copy")

\* the table with those columns assigned: the numeric columns keep their
\* numbers (to_numeric), "Name_clean" is a column the table did not have
AssignColumns(table, columns) ==
    IF "Name_clean" \notin columns THEN table
    ELSE [i \in 1..Len(table) |->
            [c \in (DOMAIN table[i]) \cup {"Name_clean"} |->
                IF c = "Name_clean" THEN NameClean(table[i].Name) ELSE table[i][c]]]

InitCatalog ==
    /\ eval_mode = FALSE
    /\ \E table \in Catalogs : InitDM(table)
    /\ RegistryIdle
    /\ CatalogIdle
    /\ LoopIdle
    /\ HistoryIdle
    /\ SessionsIdle

\* _filter_by_style on the whole table
StyleFilter ==
    /\ \E q \in StyleQueries :
         call' = [op |-> "style", query |-> q,
                  result |-> FilterByStyle(q, data, AllRows(data))]
    /\ UNCHANGED <<data, disk, engine_vars, registry_vars, loop_vars, history_vars, session_vars>>

\* filter_by_intent
QueryCatalog ==
    /\ \E intent \in QueryIntents : \E slots \in QuerySlots(intent) :
         /\ call' = [op |-> "query", intent |-> intent, slots |-> slots,
                  result |-> FilterByIntent(data, QueryKeys(intent, slots), slots, intent)]
            /\ data' = AssignColumns(data, LiveAssigned(QueryKeys(intent, slots), slots,
                                                        Snapshot("live")))
    /\ UNCHANGED <<disk, engine_vars, registry_vars, loop_vars, history_vars, session_vars>>

\* record_user_rating; rows_before and rated_before are the number of rows
\* and the user rating of the first row of that name before the call
RateBeer ==
    /\ \E slots \in RateSlots :
         LET r == RecordUserRating(data, slots)
             same == {i \in 1..Len(data) : r.payload # NoResult /\ data[i].Name = r.payload.beer.name}
         IN  /\ data' = r.data
             /\ disk' = IF r.csv = NotWritten THEN disk ELSE r.csv
             /\ call' = [op |-> "rate", slots |-> slots, result |-> r.payload,
                         rows_before |-> Len(data),
                         rated_before |-> IF same = {} THEN Missing
                                          ELSE data[CHOOSE i \in same : \A j \in same : i <= j].UserRating]
    /\ UNCHANGED <<engine_vars, registry_vars, loop_vars, history_vars, session_vars>>

NextCatalog ==
    \/ StyleFilter
    \/ QueryCatalog
    \/ RateBeer

SpecCatalog == InitCatalog /\ [][NextCatalog]_vars

\* ------------------------------------------------------ the file may fail
\* to_csv raised (OSError: the path is read-only, the disk is full)
WriteError == [kind |-> "OSError"]

\* what a to_csv that raised may leave at the path: the file as it was when
\* it could not be opened, otherwise a file cut short (the model takes the
\* empty file and the file without its last row)
FailedWrites(old, new) == {old, <<>>, SubSeq(new, 1, Len(new) - 1)}

\* lines 90-94 with to_csv raising: the assignments of lines 90-92 are done, r
\* being what record_user_rating does when the write succeeds
WriteFailed(slots, r, first_rating) ==
    /\ r.csv # NotWritten
    /\ data' = r.data
    /\ disk' \in FailedWrites(disk, r.csv)
    /\ call' = [op |-> "rate", slots |-> slots, result |-> WriteError,
                rows_before |-> Len(data), rated_before |-> first_rating]

\* the user rating of the first row carrying the name the slots match
FirstRating(d, slots) ==
    LET name == SlotGet(slots, "name")
        matched_name == IF name = None THEN None ELSE RatingMatch(d, name)
        same == {i \in 1..Len(d) : d[i].Name = matched_name}
    IN  IF same = {} THEN Missing ELSE d[CHOOSE i \in same : \A j \in same : i <= j].UserRating

\* record_user_rating raising at line 94
RateBeerWriteFails ==
    /\ \E slots \in RateSlots :
         WriteFailed(slots, RecordUserRating(data, slots), FirstRating(data, slots))
    /\ UNCHANGED <<engine_vars, registry_vars, loop_vars, history_vars, session_vars>>

NextPersist ==
    \/ RateBeer
    \/ RateBeerWriteFails

SpecPersist == InitCatalog /\ [][NextPersist]_vars

\* ------------------------------------------- two sessions on the same file
\* pd.read_csv of a file to_csv wrote: an empty field is a null cell, a column
\* the file does not have is not read, a rating is read as a float
AsFloat(field) ==
    CASE field = "4" -> "4.0"
      [] field = "5" -> "5.0"
      [] OTHER -> field

ReadCsv(file) ==
    [i \in 1..Len(file) |->
        [file[i] EXCEPT !.UserRating = IF @ = "" THEN None ELSE AsFloat(@),
                        !.UserComment = IF @ = "" THEN None ELSE @]]

\* the beer each session rates
BeerOf(s) == IF s = "A" THEN "Duvel" ELSE "Punk IPA"
SessionSlots(s) == [name : {BeerOf(s)}, rating : {"4", "5"}, comment : {None, "good"}]

InitSessions ==
    /\ eval_mode = FALSE
    /\ InitDM(Catalog)
    /\ RegistryIdle
    /\ CatalogIdle
    /\ LoopIdle
    /\ HistoryIdle
    /\ SessionsIdle

\* BeerDataset.__init__ in session s: the table is read from the file
Load ==
    /\ \E s \in Sessions :
         sessions' = [sessions EXCEPT ![s] = [pc |-> "loaded", data |-> ReadCsv(disk)]]
    /\ UNCHANGED <<persisted, dm_vars, registry_vars, catalog_vars, loop_vars, history_vars>>

\* lines 90-94 in session s, r being what record_user_rating did on the
\* session's own table: the whole table is written over the file
SessionRated(s, slots, r) ==
    /\ r.csv # NotWritten
    /\ sessions' = [sessions EXCEPT ![s].data = r.data]
    /\ disk' = r.csv
    /\ persisted' = [persisted EXCEPT ![s] = [name |-> r.payload.beer.name,
                                              rating |-> slots.rating]]

\* record_user_rating in session s
Rate ==
    /\ \E s \in Sessions :
         /\ sessions[s].pc = "loaded"
         /\ \E slots \in SessionSlots(s) :
              SessionRated(s, slots, RecordUserRating(sessions[s].data, slots))
    /\ UNCHANGED <<engine_vars, data, registry_vars, catalog_vars, loop_vars, history_vars>>

NextSessions ==
    \/ Load
    \/ Rate

SpecSessions == InitSessions /\ [][NextSessions]_vars

\* ------------------------------------------------------------- History
Contents == {"hello", "a stout"}
Entries == [role : {"user", "system"}, content : Contents]

\* History.push evicting the newest entry (pop() for pop(0))
HistoryPush_EvictsNewest(mem, limit, role, content) ==
    Append(IF Len(mem) >= limit THEN SubSeq(mem, 1, Len(mem) - 1) ELSE mem,
           [role |-> role, content |-> content])

\* History.push: the oldest entry goes when the buffer is full, then the
\* entry is appended (limit >= 1, so a full buffer is not empty)
HistoryPush(mem, limit, role, content) ==
    Append(IF Len(mem) >= limit THEN Tail(mem) ELSE mem,
           [role |-> role, content |-> content])

\* History.reset
HistoryReset(mem) == <<>>

\* History.clean
HistoryClean(mem, limit, user_text) == HistoryPush(HistoryReset(mem), limit, "user", user_text)

\* History(limit)
InitHistory ==
    /\ eval_mode = FALSE
    /\ InitDM(Catalog)
    /\ RegistryIdle
    /\ CatalogIdle
    /\ LoopIdle
    /\ memory = <<>>
    /\ max_turns \in 1..MaxLimit
    /\ pushed = <<>>
    /\ hist_call = NoCall
    /\ history_limit = 0
    /\ SessionsIdle

Push ==
    /\ Len(pushed) < MaxPushes
    /\ \E e \in Entries :
         /\ memory' = HistoryPush(memory, max_turns, e.role, e.content)
         /\ pushed' = Append(pushed, e)
         /\ hist_call' = [op |-> "push", role |-> e.role, content |-> e.content]
    /\ UNCHANGED <<max_turns, history_limit, dm_vars, registry_vars, catalog_vars, loop_vars,
                   session_vars>>

Reset ==
    /\ memory' = HistoryReset(memory)
    /\ pushed' = <<>>
    /\ hist_call' = [op |-> "reset"]
    /\ UNCHANGED <<max_turns, history_limit, dm_vars, registry_vars, catalog_vars, loop_vars,
                   session_vars>>

Clean ==
    /\ \E text \in Contents :
         /\ memory' = HistoryClean(memory, max_turns, text)
         /\ pushed' = <<[role |-> "user", content |-> text]>>
         /\ hist_call' = [op |-> "clean", text |-> text]
    /\ UNCHANGED <<max_turns, history_limit, dm_vars, registry_vars, catalog_vars, loop_vars,
                   session_vars>>

NextHistory ==
    \/ Push
    \/ Reset
    \/ Clean

SpecHistory == InitHistory /\ [][NextHistory]_vars

\* ------------------------------------------- the History of a component
\* the default of History.__init__ and the value the components assign
DefaultLimit == 5
ComponentLimit == 6

\* self.history = History(); self.history.history_limit = 6
InitComponent ==
    /\ eval_mode = FALSE
    /\ InitDM(Catalog)
    /\ RegistryIdle
    /\ CatalogIdle
    /\ LoopIdle
    /\ SessionsIdle
    /\ memory = <<>>
    /\ max_turns = DefaultLimit
    /\ history_limit = ComponentLimit
    /\ pushed = <<>>
    /\ hist_call = NoCall

\* the component pushes a turn on its History
ComponentPush ==
    /\ Len(pushed) < MaxComponentPushes
    /\ \E e \in Entries :
         /\ memory' = HistoryPush(memory, max_turns, e.role, e.content)
         /\ pushed' = Append(pushed, e)
         /\ hist_call' = [op |-> "push", role |-> e.role, content |-> e.content]
    /\ UNCHANGED <<max_turns, history_limit, dm_vars, registry_vars, catalog_vars, loop_vars,
                   session_vars>>

NextComponent ==
    \/ ComponentPush
    \/ Reset
    \/ Clean

SpecComponent == InitComponent /\ [][NextComponent]_vars

\* ------------------------------------------------------------------ claims
Intents(stack) == [i \in 1..Len(stack) |-> stack[i].intent]
IsPrefix(s, t) == Len(s) <= Len(t) /\ \A i \in 1..Len(s) : s[i] = t[i]
WellFormed(nba) ==
    nba.parsed /\ nba.parameter # "" /\ Lower(nba.parameter) \notin {"none", "null"}

\* a cycle has finished in the current call: `cycle` and the last element of
\* final_actions are those of the tracker at idx - 1
CycleDone == pc = "cycle" /\ idx > 1
Processed == state_stack[idx - 1]

\* C1: with validation on, a get_beer_info tracker whose "name" is set accepts
\* every Confirmation with a non-empty, non-sentinel parameter, "brewery" set or not
C1_ConfirmationOnceNameSet ==
    \A i \in 1..Len(state_stack) :
        (/\ ~eval_mode
         /\ state_stack[i].intent = "get_beer_info"
         /\ SlotGet(state_stack[i].slots, "name") # None)
        => \A nba \in Replies :
              (nba.action = "confirmation" /\ WellFormed(nba))
              => CheckResponseValidity(nba, state_stack[i])

\* C2: with validation on, no cycle of a tracker other than get_beer_info
\* accepts a Confirmation while a slot of that tracker is unset
C2_NoConfirmationWhileUnset ==
    (/\ CycleDone
     /\ ~eval_mode
     /\ Processed.intent # "get_beer_info"
     /\ cycle.parsed.action = "confirmation")
    => FullSlots(Processed)

C2_Witness ==
    /\ CycleDone
    /\ ~eval_mode
    /\ Processed.intent = "rate_beer"
    /\ cycle.parsed.action = "confirmation"

\* C3: with validation on, every accepted RequestInfo names a key of the
\* processed tracker's slot mapping whose value is unset
C3_RequestNamesUnsetSlot ==
    (CycleDone /\ ~eval_mode /\ cycle.parsed.action = "request_info")
    => /\ cycle.parsed.parameter \in DOMAIN Processed.slots
       /\ Processed.slots[cycle.parsed.parameter] = None

\* C4: with validation on, a tracker whose slots are all set (or that has no
\* slot) accepts a Confirmation and nothing else
C4_CompleteOnlyConfirmation ==
    (CycleDone /\ ~eval_mode /\ FullSlots(Processed))
    => cycle.parsed.action = "confirmation"

C4_Witness ==
    /\ CycleDone
    /\ ~eval_mode
    /\ idx = 3
    /\ state_stack[1].intent = "out_of_context"
    /\ Processed.intent = "rate_beer"
    /\ FullSlots(Processed)
    /\ cycle.parsed.action = "confirmation"

\* C5: a tracker leaves the registry only by a step in whose turn a
\* Confirmation naming that tracker's own intent was dispatched with that
\* tracker's slot values and returned a non-empty result
C5_RemovedOnlyByOwnConfirmation ==
    [][\A i \in 1..Len(state_stack) :
          (\A j \in 1..Len(state_stack') : state_stack'[j].intent # state_stack[i].intent)
          => i \in resolved]_vars

\* C6: a dispatched Confirmation with an empty result emits check_info with
\* the serialization of the processed tracker, and that tracker stays in the
\* registry with its slot values: its index is not scheduled for removal by
\* its cycle nor by a later one, and the return keeps what is not scheduled
C6_EmptyResultKeepsTracker ==
    [][/\ (idx' = idx + 1 /\ cycle'.parsed.action = "confirmation" /\ cycle'.empty)
          => /\ final_actions'.last.action = "check_info"
             /\ final_actions'.last.data = Serialize(state_stack'[idx])
             /\ idx \notin remove_indices'
       /\ pc = "cycle"
          => /\ remove_indices' \subseteq remove_indices \cup {idx}
             /\ \A i \in 1..Len(state_stack) :
                   i \notin remove_indices
                   => \E j \in 1..Len(state_stack') : state_stack'[j] = state_stack[i]]_vars

C6_Witness ==
    /\ CycleDone
    /\ cycle.parsed.action = "confirmation"
    /\ cycle.empty
    /\ cycle.call = "filter_by_intent"
    /\ \E k \in DOMAIN Processed.slots : Processed.slots[k] = None

\* C7: a turn that is not the terminate signal runs one cycle per tracker of
\* the merged registry, in order, each emitting one action, and the call
\* always returns them
C7_OneActionPerTracker ==
    /\ pc # "crashed"
    /\ pc = "cycle" => /\ final_actions.len = idx - 1
                       /\ idx <= Len(state_stack) + 1

\* C8: a batch that is one terminate_system observation returns the
\* termination action, queries the collaborator zero times and leaves the
\* registry and the table as they were
C8_TerminateShortCircuit ==
    [][single_terminate'
       => /\ pc' = "terminated"
          /\ ~queried'
          /\ state_stack' = state_stack
          /\ data' = data]_vars

C8_Witness == pc = "terminated" /\ single_terminate /\ Len(state_stack) = 2

\* C9: the registry never holds two trackers of one intent, and a merge keeps
\* the trackers it found in place, appending a new one at the end
C9_OneTrackerPerIntent ==
    [][/\ \A i, j \in 1..Len(state_stack') :
            state_stack'[i].intent = state_stack'[j].intent => i = j
       /\ pc' \in {"merge", "cycle"} /\ pc \in {"idle", "merge"}
          => IsPrefix(Intents(state_stack), Intents(state_stack'))]_vars

C9_Witness ==
    /\ pc = "cycle"
    /\ Len(state_stack) = 2
    /\ batch_left = 0

\* C10: the key set of every tracker is the static slot set of its intent
C10_KeySetFixed ==
    \A i \in 1..Len(state_stack) :
        DOMAIN state_stack[i].slots = Range(intent_slots(state_stack[i].intent))

\* C11: the serialization of every tracker names its intent and lists every
\* slot of the static table for that intent, an unset one as "null"; so does
\* the serialization an update returns
ListsStaticSlots(s, intent) ==
    /\ s.intent = intent
    /\ Range(intent_slots(intent)) \subseteq DOMAIN s.slots
C11_SerializeListsStaticSlots ==
    /\ \A i \in 1..Len(state_stack) :
          /\ ListsStaticSlots(Serialize(state_stack[i]), state_stack[i].intent)
          /\ \A k \in Range(intent_slots(state_stack[i].intent)) :
                /\ k \in DOMAIN state_stack[i].slots
                /\ state_stack[i].slots[k] = None
                    => Serialize(state_stack[i]).slots[k] = "null"
    /\ serialized # Unbound
       => \E i \in 1..Len(state_stack) :
             /\ serialized = Serialize(state_stack[i])
             /\ ListsStaticSlots(serialized, state_stack[i].intent)

C11_Witness ==
    /\ serialized # Unbound
    /\ serialized.intent = "get_beer_info"
    /\ serialized.slots["name"] = "null"
    /\ serialized.slots["brewery"] = "Moortgat"
    /\ Len(state_stack) = 2

\* C12: after an observation is merged, every slot it wrote as the sentinel
\* "null" or "none" is unset in the tracker, which is then incomplete
LastObs == obs_log[Len(obs_log)]
C12_SentinelLeavesUnset ==
    obs_log # <<>>
    => \A k \in DOMAIN LastObs.slots :
          LastObs.slots[k] \in {"null", "none"}
          => /\ state_stack[FindIntent(state_stack, LastObs.intent)].slots[k] = None
             /\ ~FullSlots(state_stack[FindIntent(state_stack, LastObs.intent)])

\* C13: two observations of one intent merged one after the other give the
\* registry that merging their ordered union gives (per slot the later write,
\* a clear included; a slot neither writes keeps its value), and the trackers
\* of other intents are as before
OrderedUnion(a, b) ==
    [intent |-> b.intent,
     slots |-> [k \in (DOMAIN a.slots) \cup (DOMAIN b.slots) |->
                  IF k \in DOMAIN b.slots THEN b.slots[k] ELSE a.slots[k]]]
C13_MergeIsOrderedUnion ==
    (Len(obs_log) = 2 /\ obs_log[1].intent = obs_log[2].intent)
    => /\ state_stack = MergeOne(stack_log, OrderedUnion(obs_log[1], obs_log[2]))
       /\ \A j \in 1..Len(stack_log) :
             stack_log[j].intent # obs_log[1].intent => state_stack[j] = stack_log[j]

C13_Witness ==
    /\ Len(obs_log) = 2
    /\ obs_log[1].intent = "get_beer_info"
    /\ obs_log[2].intent = "get_beer_info"
    /\ DOMAIN obs_log[1].slots = {"name", "brewery"}
    /\ obs_log[1].slots["name"] = "Duvel"
    /\ DOMAIN obs_log[2].slots = {"name"}
    /\ obs_log[2].slots["name"] = "null"
    /\ Len(stack_log) = 2
    /\ stack_log[1].intent = "list_beers_by_brewery"
    /\ stack_log[2].intent = "get_beer_info"

\* C14: the adaptive loop, once started, returns, whatever non-increasing
\* number of matches per threshold the query has
C14_LoopTerminates == (loop_pc = "loop") ~> (loop_pc = "returned")

\* C15: the adaptive loop returns no row only with the threshold at the
\* floor, and otherwise at most MaxRows rows at a threshold between the floor
\* and the ceiling
C15_ReturnsAtMostTen ==
    loop_pc = "returned"
    => \/ count[threshold] = 0 /\ threshold = FloorThreshold
       \/ /\ count[threshold] > 0
          /\ count[threshold] <= MaxRows
          /\ threshold >= FloorThreshold
          /\ threshold <= CeilThreshold

\* C15 as amended: more than MaxRows rows are returned only at the ceiling
C15_ReturnsAtMostTenBelowCeiling ==
    loop_pc = "returned"
    => \/ count[threshold] = 0 /\ threshold = FloorThreshold
       \/ /\ count[threshold] > 0
          /\ count[threshold] <= MaxRows
          /\ threshold >= FloorThreshold
          /\ threshold <= CeilThreshold
       \/ count[threshold] > MaxRows /\ threshold = CeilThreshold

C15_Witness ==
    /\ loop_pc = "returned"
    /\ count[threshold] > MaxRows
    /\ threshold = CeilThreshold
    /\ count[StartThreshold] > MaxRows

\* the beers of a query result as rows of the table (the label is "id")
ReturnedRows == [n \in 1..Len(call.result.beers) |-> call.result.beers[n].id + 1]

\* the rows that pass every filter of the last query, when no filter raised
Survivors ==
    Range(ApplyFilters(QueryKeys(call.intent, call.slots), call.slots, data, AllRows(data)))

\* C16: the rows a query returns number at most the cap of 5; for
\* get_top_rated they are in descending order of rating and are the best rated
\* of all rows that pass the filters, for every other intent they are in the
\* order of the catalog
C16_SortedAndCapped ==
    (call.op = "query" /\ call.result.kind = "beers") =>
        LET rows == ReturnedRows
        IN  /\ Len(rows) <= 5
            /\ Len(rows) = (IF Cardinality(Survivors) <= 5 THEN Cardinality(Survivors) ELSE 5)
            /\ Range(rows) \subseteq Survivors
            /\ IF call.intent = "get_top_rated"
               THEN /\ \A m, n \in 1..Len(rows) :
                         m < n => data[rows[m]].Rating >= data[rows[n]].Rating
                    /\ \A i \in Survivors \ Range(rows) : \A n \in 1..Len(rows) :
                         data[rows[n]].Rating >= data[i].Rating
               ELSE \A m, n \in 1..Len(rows) : m < n => rows[m] < rows[n]

\* every slot of the last query is absent or unset
ZeroSlots == \A k \in DOMAIN call.slots : call.slots[k] \in {None, "null"}

\* no row of the table passes the filters of the last query: the filters
\* returned no row, or the style asked for is in neither candidate set
EliminatesEveryRow ==
    LET keys == QueryKeys(call.intent, call.slots)
        df == ApplyFilters(keys, call.slots, data, AllRows(data))
    IN  \/ df = <<>>
        \/ /\ keys # <<>>
           /\ Head(keys) = "style"
           /\ call.slots.style \notin {None, "null"}
           /\ SubstrRows(Lower(call.slots.style), data, AllRows(data)) = {}
           /\ FuzzyRows(Lower(call.slots.style), data, AllRows(data)) = {}

\* C17: a query with every slot absent or unset returns the head of the
\* unfiltered catalog (for get_top_rated the head after the sort), which is
\* not empty; a query whose filters eliminate every row returns None; no
\* query returns a list of zero beers
C17_HeadVersusNoResult ==
    call.op = "query" =>
        /\ ZeroSlots =>
              /\ call.result.kind = "beers"
              /\ Len(call.result.beers) > 0
              /\ call.result =
                   FormatJson(data, Head5(IF call.intent = "get_top_rated"
                                          THEN SortByRating(data, AllRows(data))
                                          ELSE AllRows(data)))
        /\ EliminatesEveryRow => call.result = NoResult
        /\ call.result.kind = "beers" => Len(call.result.beers) > 0

\* the two candidate sets of the last call of the style filter
SubstrSet == SubstrRows(Lower(call.query), data, AllRows(data))
FuzzySet == FuzzyRows(Lower(call.query), data, AllRows(data))

\* C18: when one candidate set of the style filter is empty the filter
\* returns the rows of the other one, and no row when both are empty
C18_OneOrNoCandidateSet ==
    (call.op = "style" /\ (SubstrSet = {} \/ FuzzySet = {})) =>
        call.result = SelectRows(AllRows(data), SubstrSet \cup FuzzySet)

\* C19: when both candidate sets of the style filter have rows the filter
\* returns the rows that are in both or, when there is none, the rows that
\* are in either, each row once; the result has rows and is fixed by the
\* query and the table
C19_IntersectionElseUnion ==
    (call.op = "style" /\ SubstrSet # {} /\ FuzzySet # {}) =>
        /\ call.result # ValueError
        /\ call.result # <<>>
        /\ Len(call.result) = Cardinality(Range(call.result))
        /\ Range(call.result) = (IF SubstrSet \cap FuzzySet # {}
                                 THEN SubstrSet \cap FuzzySet
                                 ELSE SubstrSet \cup FuzzySet)

\* the union: both sets have rows and share none
C19_Witness ==
    /\ call.op = "style"
    /\ SubstrSet # {}
    /\ FuzzySet # {}
    /\ SubstrSet \cap FuzzySet = {}
    /\ Len(call.result) = 2

\* C20: a successful rating leaves the number of rows as it was, leaves the
\* submitted rating on every row with the name of the matched row, and
\* leaves the file equal to the table
C20_RatingKeepsRows ==
    (call.op = "rate" /\ call.result # NoResult) =>
        /\ Len(data) = call.rows_before
        /\ \A i \in 1..Len(data) :
              data[i].Name = call.result.beer.name => data[i].UserRating = call.slots.rating
        /\ disk = ToCsv(data)

\* a second rating of a name that two rows carry replaced the first one
C20_Witness ==
    /\ call.op = "rate"
    /\ call.result # NoResult
    /\ call.rated_before \notin {Missing, None}
    /\ call.rated_before # call.slots.rating
    /\ Cardinality({i \in 1..Len(data) : data[i].Name = call.result.beer.name}) = 2

\* the slots passed to record_user_rating cannot be recorded: the name or the
\* rating is unset, or no name of the table scores 85 against the name
RatingFails(d, slots) ==
    \/ SlotGet(slots, "name") = None
    \/ SlotGet(slots, "rating") = None
    \/ RatingMatch(d, SlotGet(slots, "name")) = None

\* C21: a cycle that dispatches record_user_rating with slots that cannot be
\* recorded gets no payload, leaves the table and the file as they were (no
\* user column is added), emits check_info and schedules no tracker for
\* removal, so the processed tracker stays in the registry
C21_FailedRatingChangesNothing ==
    [][(idx' = idx + 1 /\ cycle'.call = "record_user_rating" /\ RatingFails(data, cycle'.slots))
       => /\ cycle'.empty
          /\ data' = data
          /\ disk' = disk
          /\ final_actions'.last.action = "check_info"
          /\ remove_indices' = remove_indices
          /\ idx \notin remove_indices']_vars

\* a complete rate_beer tracker whose name matches no beer was dispatched on
\* a table that has no user column
C21_Witness ==
    /\ CycleDone
    /\ cycle.call = "record_user_rating"
    /\ cycle.empty
    /\ Processed.intent = "rate_beer"
    /\ cycle.slots = Processed.slots
    /\ SlotGet(cycle.slots, "name") = "zzz"
    /\ SlotGet(cycle.slots, "rating") = "4"
    /\ \A i \in 1..Len(data) : data[i].UserRating = Missing

\* C22: a rating whose write to the file raises leaves the table as it was
\* before the call and equal to the file
C22_FailedWriteLeavesBothAlike ==
    [][(call'.op = "rate" /\ call'.result = WriteError)
       => (data' = data /\ disk' = ToCsv(data'))]_vars

\* C23: a query leaves the table as it was, every row, every value and the
\* set of columns, and does not write the file
C23_QueryLeavesCatalog ==
    [][call'.op = "query" => (data' = data /\ disk' = disk)]_vars

\* a query whose name filter, the one that adds a column to its frame, ran
\* and returned beers
C23_Witness ==
    /\ call.op = "query"
    /\ call.intent = "get_beer_info"
    /\ call.slots # NoSlots
    /\ call.slots.name = "Duvel"
    /\ call.result.kind = "beers"
    /\ \A i \in 1..Len(data) : DOMAIN data[i] = DOMAIN Cellar[1]

\* C24: the action a cycle emits has one of the tags request_info,
\* confirmation, check_info, a parameter and a data payload, with validation
\* on and in evaluation mode
C24_ClosedActionTags ==
    CycleDone
    => /\ final_actions.last.action \in {"request_info", "confirmation", "check_info"}
       /\ final_actions.last.parameter # Missing
       /\ final_actions.last.data # Unbound

\* the last n elements of a sequence
LastN(s, n) == SubSeq(s, Len(s) - n + 1, Len(s))

\* C25: the buffer of a History with limit L >= 1 holds at most L entries,
\* which are the last min(n, L) of the n entries pushed, in the order of the
\* pushes; after clean(text) it holds the one entry of the user with that text
C25_BufferIsRecentWindow ==
    /\ max_turns >= 1
       => /\ Len(memory) <= max_turns
          /\ memory = LastN(pushed, IF Len(pushed) <= max_turns THEN Len(pushed) ELSE max_turns)
    /\ hist_call.op = "clean"
       => memory = <<[role |-> "user", content |-> hist_call.text]>>

\* more entries were pushed than the limit of 2 holds
C25_Witness ==
    /\ max_turns = 2
    /\ hist_call.op = "push"
    /\ Len(pushed) = 4
    /\ Len(memory) = 2
    /\ pushed[3] # pushed[4]

\* the well-formed proposals: either action on any slot name or intent label
Proposals ==
    [parsed : {TRUE}, action : {"request_info", "confirmation"},
     parameter : SlotNames \cup ObsIntents]

\* C26: with validation on, every tracker of the registry has a well-formed
\* proposal that passes the validity check, so that the loop of its cycle can
\* end
C26_SomeProposalPasses ==
    ~eval_mode
    => \A i \in 1..Len(state_stack) :
          \E nba \in Proposals : CheckResponseValidity(nba, state_stack[i])

\* C27: with validation on, an accepted Confirmation names the intent of the
\* tracker being processed, and a call it dispatches to the catalog uses the
\* slot values of that tracker, which is complete
C27_ConfirmationNamesProcessed ==
    (~eval_mode /\ CycleDone /\ cycle.parsed.action = "confirmation")
    => /\ cycle.parsed.parameter = Processed.intent
       /\ cycle.call # "none" => (cycle.slots = Processed.slots /\ FullSlots(Processed))

\* C28: at every step of the adaptive loop, and when it returns, the
\* threshold is between the floor 30 and the ceiling 100
C28_ThresholdWithinBounds ==
    loop_pc \in {"loop", "returned"} => threshold \in FloorThreshold..CeilThreshold

\* C29: with validation on and in evaluation mode, the payload of the action
\* a cycle emits is bound and was computed in that cycle: the intent label of
\* the processed tracker, its serialization, or the result of the call the
\* cycle's Confirmation dispatched; never the payload of an earlier cycle
C29_PayloadOfOwnCycle ==
    [][idx' = idx + 1
       => /\ final_actions'.last.data # Unbound
          /\ \/ final_actions'.last.data = [kind |-> "intent", intent |-> state_stack[idx].intent]
             \/ final_actions'.last.data = Serialize(state_stack[idx])
             \/ /\ cycle'.parsed.action = "confirmation"
                /\ final_actions'.last.data
                     = HandleConfirmation(cycle'.parsed, state_stack, data).result]_vars

\* the intents of the static table of _initialize_slots
StaticIntents ==
    {"get_beer_recommendation", "get_beer_info", "list_beers_by_brewery",
     "get_top_rated", "rate_beer", "out_of_context"}

\* C30: every tracker of the registry has an intent of the static table; a
\* terminate_system observation creates none, in a batch of any size
C30_TrackersOfStaticTable ==
    \A i \in 1..Len(state_stack) : state_stack[i].intent \in StaticIntents

\* C31: a tracker created by an observation, also for an intent whose tracker
\* was removed before, has the slots of the static table and those of the
\* observation; a slot the observation does not write is unset, a slot it
\* writes holds the observation's value or is unset
C31_NewTrackerIsFresh ==
    [][Len(state_stack') = Len(state_stack) + 1
       => LET nlu == obs_log'[Len(obs_log')]
              new == state_stack'[Len(state_stack')]
          IN  /\ new.intent = nlu.intent
              /\ DOMAIN new.slots = Range(intent_slots(nlu.intent)) \cup DOMAIN nlu.slots
              /\ \A k \in DOMAIN new.slots :
                    IF k \in DOMAIN nlu.slots
                    THEN new.slots[k] \in {nlu.slots[k], None}
                    ELSE new.slots[k] = None]_vars

\* a tracker with a slot set was removed, and the tracker an observation then
\* created for the same intent has that slot unset
C31_Witness ==
    /\ removed # NoTracker
    /\ Len(obs_log) = 1
    /\ obs_log[1].intent = removed.intent
    /\ FindIntent(stack_log, removed.intent) = 0
    /\ \E k \in DOMAIN removed.slots :
          /\ removed.slots[k] # None
          /\ k \notin DOMAIN obs_log[1].slots
          /\ state_stack[Len(state_stack)].intent = removed.intent
          /\ state_stack[Len(state_stack)].slots[k] = None

\* a cell of the file holds the rating: as written, or as a float once a
\* session read it and wrote it back
SameRating(cell, rating) == cell \in {rating, AsFloat(rating)}

\* C32: the file holds the rating each session wrote last on every row of the
\* beer that session rates; the rewrite of the other session does not erase it
C32_BothRatingsPersist ==
    \A s \in Sessions :
        persisted[s] # NoRating
        => \A i \in 1..Len(disk) :
              disk[i].Name = persisted[s].name
              => SameRating(disk[i].UserRating, persisted[s].rating)

\* C33: the History of a component holds the last min(n, 6) of the n entries
\* pushed since it was cleared: the limit the component set is the one push
\* enforces, and the oldest entry goes only when a 7th is pushed
C33_ComponentLimitEnforced ==
    history_limit = ComponentLimit
    => memory = LastN(pushed, IF Len(pushed) <= history_limit THEN Len(pushed)
                              ELSE history_limit)

====
